---- MODULE Spec2Model ----
(***************************************************************************)
(* Model of the etcd service registry of objdb (etcdService.go,            *)
(* etcdClient.go): RegisterService / DeregisterService with the            *)
(* refreshService renewal goroutine, and WatchService with its two         *)
(* goroutines (watch thread, event translator).                            *)
(*                                                                         *)
(* Strings are sequences of one-character strings, so that the key         *)
(* building of RegisterService and the key parsing of WatchService are     *)
(* computed the way the code computes them.                                *)
(***************************************************************************)
EXTENDS Integers, Sequences, FiniteSets, TLC

(***************************************************************************)
(* Bounds of the model.                                                    *)
(***************************************************************************)
\* refreshService goroutines ever started (one per successful RegisterService)
MaxLoops == 2
\* the same, with two concurrent callers
MaxConcLoops == 2
\* mutations the store commits in one behaviour of the watch specification,
\* after those that made its first content
MaxIndex == 2
\* capacity of the caller's event channel (the caller makes the channel)
EventChCap == 1

(***************************************************************************)
(* Strings.                                                                *)
(***************************************************************************)
Digits == <<"0", "1", "2", "3", "4", "5", "6", "7", "8", "9">>

IsDigit(c) == \E i \in 1..10 : Digits[i] = c

DigitVal(c) == (CHOOSE i \in 1..10 : Digits[i] = c) - 1

\* strconv.Itoa
RECURSIVE ItoaNat(_)
ItoaNat(n) ==
    IF n < 10 THEN <<Digits[n + 1]>>
    ELSE ItoaNat(n \div 10) \o <<Digits[(n % 10) + 1]>>

Itoa(n) == IF n < 0 THEN <<"-">> \o ItoaNat(0 - n) ELSE ItoaNat(n)

RECURSIVE AtoiNat(_)
AtoiNat(s) ==
    IF Len(s) = 0 THEN 0
    ELSE 10 * AtoiNat(SubSeq(s, 1, Len(s) - 1)) + DigitVal(s[Len(s)])

\* strconv.Atoi with the error dropped (portNum, _ := ...): 0 when the text
\* is not an optionally signed run of digits.
Atoi(s) ==
    LET signed == Len(s) > 0 /\ s[1] \in {"+", "-"}
        body   == IF signed THEN SubSeq(s, 2, Len(s)) ELSE s
    IN  IF Len(body) = 0 \/ \E i \in 1..Len(body) : ~IsDigit(body[i]) THEN 0
        ELSE IF signed /\ s[1] = "-" THEN 0 - AtoiNat(body)
        ELSE AtoiNat(body)

\* strings.TrimPrefix
TrimPrefix(s, p) ==
    IF Len(s) >= Len(p) /\ SubSeq(s, 1, Len(p)) = p
    THEN SubSeq(s, Len(p) + 1, Len(s))
    ELSE s

\* strings.HasPrefix
HasPrefix(s, p) == Len(s) >= Len(p) /\ SubSeq(s, 1, Len(p)) = p

\* strings.Split on a one-character separator
RECURSIVE Split(_, _)
Split(s, c) ==
    IF \A i \in 1..Len(s) : s[i] # c THEN <<s>>
    ELSE LET i == CHOOSE i \in 1..Len(s) :
                     s[i] = c /\ \A j \in 1..(i - 1) : s[j] # c
         IN  <<SubSeq(s, 1, i - 1)>> \o Split(SubSeq(s, i + 1, Len(s)), c)

\* "/contiv.io/service/"
ServicePrefix ==
    <<"/", "c", "o", "n", "t", "i", "v", ".", "i", "o", "/",
      "s", "e", "r", "v", "i", "c", "e", "/">>

(***************************************************************************)
(* Service instances.                                                      *)
(***************************************************************************)
MkInfo(n, h, p) == [ServiceName |-> n, HostAddr |-> h, Port |-> p]

InfoA == MkInfo(<<"w">>, <<"g">>, 7)

InfoB == MkInfo(<<"w">>, <<"h">>, 80)

Infos == {InfoA, InfoB}

\* the service the watch session of the model follows
WatchName == <<"w">>

\* ServiceKey with the port before the host
ServiceKeyPortFirst(info) ==
    ServicePrefix \o info.ServiceName \o <<"/">> \o Itoa(info.Port)
        \o <<":">> \o info.HostAddr

\* keyName of RegisterService and DeregisterService
ServiceKey(info) ==
    ServicePrefix \o info.ServiceName \o <<"/">> \o info.HostAddr
        \o <<":">> \o Itoa(info.Port)

\* keyName of GetService and WatchService
WatchKey(name) == ServicePrefix \o name \o <<"/">>

\* The keys of the model's store, in the order of a sorted directory read.
KeyUniverse == <<ServiceKey(InfoA), ServiceKey(InfoB)>>

AllKeys == {KeyUniverse[i] : i \in 1..Len(KeyUniverse)}

\* the instance registered under key k
InfoOfKey(k) == CHOOSE i \in Infos : ServiceKey(i) = k

\* json.Marshal of a ServiceInfo, and the payload no json.Unmarshal accepts
Marshal(info) == <<"json", info>>

Garbage == <<"garbage">>

Unmarshal(v) ==
    IF v[1] = "json" THEN [ok |-> TRUE, val |-> v[2]] ELSE [ok |-> FALSE]

NoVal == <<"absent">>

(***************************************************************************)
(* State.                                                                  *)
(***************************************************************************)
VARIABLES
    callers,    \* the caller threads of this behaviour
    idents,     \* the instances the callers register and deregister
    loopCap,    \* the RegisterService calls of this behaviour
    tpc,        \* caller thread -> place in RegisterService/DeregisterService
    top,        \* caller thread -> the operation it called last
    targ,       \* caller thread -> serviceInfo of that call
    tsrv,       \* caller thread -> srvState read by DeregisterService
    tret,       \* caller thread -> what the last call returned
    tbase,      \* caller thread -> goroutines started before its call
    tprev,      \* caller thread -> its call before this one, and the result
    serviceDb,  \* ep.serviceDb: keyName -> serviceState
    loops,      \* the refreshService goroutines, in the order started
    nodes,      \* the store: key -> value
    exited,     \* log.Fatalf ended the process
    baseIndex,  \* the store's index when the behaviour starts
    etcdIndex,  \* the store's index: the number of mutations committed
    history,    \* the store's event history: index -> mutation
    made,       \* the keys ever created (their directories exist)
    wpc,        \* the watch goroutine of WatchService: its place
    srvcList,   \* initServiceState: the instances still to be injected
    watchIndex, \* the index initServiceState returned
    waitIndex,  \* the index the watcher's next request waits from (0: none)
    etcdRsp,    \* the response watcher.Next returned
    wexit,      \* why the watch goroutine returned
    watchCh,    \* chan *client.Response, capacity 1
    xpc,        \* the translating goroutine of WatchService: its place
    pending,    \* the event the translating goroutine is sending
    eventCh,    \* the caller's event channel
    stopCh,     \* the caller's stop channel
    cancelled,  \* watchCancel() was called
    emitted,    \* every event put on eventCh so far, with where it came from
    snapIndex,  \* the store's index when the snapshot was read
    snapNodes,  \* the values under the prefix when the snapshot was read
    wname,      \* the service name WatchService was called with
    returned,   \* the indices of the responses watcher.Next returned so far
    exitIndex   \* the store's index when the watch goroutine returned

regVars == <<callers, idents, loopCap, tpc, top, targ, tsrv, tret, tbase, tprev,
            serviceDb, loops>>

storeVars == <<nodes, baseIndex, etcdIndex, history, made>>

watchVars == <<wpc, srvcList, watchIndex, waitIndex, etcdRsp, wexit, watchCh,
               xpc, pending, eventCh, stopCh, cancelled, emitted, snapIndex,
               snapNodes, wname, returned, exitIndex>>

logVars == <<baseIndex, etcdIndex, history, made>>

vars == <<regVars, storeVars, watchVars, exited>>

NoState == [stopChan |-> 0]

NoInfo == MkInfo(<<>>, <<>>, 0)

\* a *client.Response of the watcher: the action, and the node's key and index
MkRsp(a, k, i) == [Action |-> a, Key |-> k, Index |-> i]

NoRsp == MkRsp("none", <<>>, 0)

\* a WatchServiceEvent
MkEvent(ty, info) == [EventType |-> ty, ServiceInfo |-> info]

NoEvent == MkEvent("none", NoInfo)

\* the store after its clients registered the first n instances
StoreAfter(n) ==
    /\ nodes = [k \in AllKeys |->
                  IF \E i \in 1..n : KeyUniverse[i] = k
                  THEN Marshal(InfoOfKey(k)) ELSE NoVal]
    /\ baseIndex = n
    /\ etcdIndex = n
    /\ history = [i \in 1..n |-> MkRsp("set", KeyUniverse[i], i)]
    /\ made = {KeyUniverse[i] : i \in 1..n}

\* a registration of another service than the watched one
InfoV == MkInfo(<<"v">>, <<"g">>, 7)

\* the store after a client registered an instance of another service only:
\* the directory of the watched service does not exist
StoreForeign ==
    /\ nodes = [k \in AllKeys \cup {ServiceKey(InfoV)} |->
                  IF k = ServiceKey(InfoV) THEN Marshal(InfoV) ELSE NoVal]
    /\ baseIndex = 1
    /\ etcdIndex = 1
    /\ history = <<MkRsp("set", ServiceKey(InfoV), 1)>>
    /\ made = {ServiceKey(InfoV)}

\* no WatchService call yet
InitSession ==
    /\ wpc = "idle"
    /\ srvcList = <<>>
    /\ watchIndex = 0
    /\ waitIndex = 0
    /\ etcdRsp = NoRsp
    /\ wexit = "none"
    /\ watchCh = <<>>
    /\ xpc = "idle"
    /\ pending = NoEvent
    /\ eventCh = <<>>
    /\ stopCh = <<>>
    /\ cancelled = FALSE
    /\ emitted = <<>>
    /\ snapIndex = 0 - 1
    /\ snapNodes = <<>>
    /\ wname = WatchName
    /\ returned = <<>>
    /\ exitIndex = 0 - 1

\* the plugin after Init: an empty ep.serviceDb, no goroutine
InitPlugin(threads, ids, cap) ==
    /\ callers = threads
    /\ idents = ids
    /\ loopCap = cap
    /\ tpc = [t \in threads |-> "idle"]
    /\ top = [t \in threads |-> "none"]
    /\ targ = [t \in threads |-> NoInfo]
    /\ tsrv = [t \in threads |-> 0]
    /\ tret = [t \in threads |-> "none"]
    /\ tbase = [t \in threads |-> 0]
    /\ tprev = [t \in threads |-> [op |-> "none", arg |-> NoInfo, ret |-> "none"]]
    /\ serviceDb = [k \in AllKeys |-> NoState]
    /\ loops = <<>>
    /\ exited = FALSE

\* WatchService was called with the name, found no directory of the service
\* (index i, nothing to inject), opened the watcher without an index, and
\* its first watcher.Next reached the store: both goroutines are waiting
SessionStreaming(name, i) ==
    /\ wpc = "next"
    /\ srvcList = <<>>
    /\ watchIndex = 0
    /\ waitIndex = i + 1
    /\ etcdRsp = NoRsp
    /\ wexit = "none"
    /\ watchCh = <<>>
    /\ xpc = "select"
    /\ pending = NoEvent
    /\ eventCh = <<>>
    /\ stopCh = <<>>
    /\ cancelled = FALSE
    /\ emitted = <<>>
    /\ snapIndex = i
    /\ snapNodes = <<>>
    /\ wname = name
    /\ returned = <<>>
    /\ exitIndex = 0 - 1

Init(threads, ids, cap) == InitPlugin(threads, ids, cap) /\ InitSession

(***************************************************************************)
(* The store calls of the registry.                                        *)
(***************************************************************************)
\* kapi.Set(keyName, val, TTL) that succeeded
KapiSet(k, v) == nodes' = [nodes EXCEPT ![k] = v]

\* kapi.Delete(keyName) that succeeded
KapiDelete(k) == nodes' = [nodes EXCEPT ![k] = NoVal]

(***************************************************************************)
(* RegisterService.                                                        *)
(***************************************************************************)
Return(t, r) ==
    /\ tpc' = [tpc EXCEPT ![t] = "idle"]
    /\ tret' = [tret EXCEPT ![t] = r]

\* the caller is inside RegisterService
InRegister(t) == top[t] = "Register" /\ tpc[t] # "idle"

\* the caller enters RegisterService(info)
RegCall(t, info) ==
    /\ ~exited
    /\ tpc[t] = "idle"
    /\ Len(loops) + Cardinality({u \in callers : InRegister(u)}) < loopCap
    /\ tpc' = [tpc EXCEPT ![t] = "reg_check"]
    /\ top' = [top EXCEPT ![t] = "Register"]
    /\ targ' = [targ EXCEPT ![t] = info]
    /\ tret' = [tret EXCEPT ![t] = "none"]
    /\ tbase' = [tbase EXCEPT ![t] = Len(loops)]
    /\ tsrv' = [tsrv EXCEPT ![t] = 0]
    /\ tprev' = [tprev EXCEPT ![t] =
                   [op |-> top[t], arg |-> targ[t], ret |-> tret[t]]]
    /\ UNCHANGED <<watchVars, logVars, callers, idents, loopCap, serviceDb, loops, nodes, exited>>

\* RegCheck without the replace: an earlier registration is left in place
RegCheckNoReplace(t) ==
    /\ ~exited
    /\ tpc[t] = "reg_check"
    /\ tpc' = [tpc EXCEPT ![t] = "reg_marshal"]
    /\ UNCHANGED <<watchVars, logVars, callers, idents, loopCap, top, targ,
                   tsrv, tret, tbase, tprev, serviceDb, loops, nodes, exited>>

\* if ep.serviceDb[keyName] != nil { ep.DeregisterService(serviceInfo) }
RegCheck(t) ==
    /\ ~exited
    /\ tpc[t] = "reg_check"
    /\ tpc' = [tpc EXCEPT ![t] =
                 IF serviceDb[ServiceKey(targ[t])] # NoState
                 THEN "dereg_find" ELSE "reg_marshal"]
    /\ UNCHANGED <<watchVars, logVars, callers, idents, loopCap, top, targ, tsrv, tret, tbase, tprev, serviceDb, loops,
                   nodes, exited>>

\* jsonVal, err := json.Marshal(serviceInfo)
RegMarshal(t) ==
    /\ ~exited
    /\ tpc[t] = "reg_marshal"
    /\ \/ /\ tpc' = [tpc EXCEPT ![t] = "reg_set"]
          /\ UNCHANGED tret
       \/ Return(t, "MarshalErr")
    /\ UNCHANGED <<watchVars, logVars, callers, idents, loopCap, top, targ, tsrv, tbase, tprev, serviceDb, loops, nodes,
                   exited>>

\* _, err = ep.kapi.Set(ctx, keyName, jsonVal, TTL: serviceTTL)
RegSet(t) ==
    /\ ~exited
    /\ tpc[t] = "reg_set"
    /\ \/ /\ KapiSet(ServiceKey(targ[t]), Marshal(targ[t]))
          /\ tpc' = [tpc EXCEPT ![t] = "reg_store"]
          /\ UNCHANGED tret
       \/ /\ Return(t, "SetErr")
          /\ UNCHANGED nodes
    /\ UNCHANGED <<watchVars, logVars, callers, idents, loopCap, top, targ, tsrv, tbase, tprev, serviceDb, loops, exited>>

NewLoop(k, v) == [pc |-> "select", keyName |-> k, keyVal |-> v, stopChan |-> 0]

\* stopChan := make(chan bool, 1); go refreshService(...);
\* ep.serviceDb[keyName] = &serviceState{...}; return nil
RegStore(t) ==
    /\ ~exited
    /\ tpc[t] = "reg_store"
    /\ loops' = Append(loops, NewLoop(ServiceKey(targ[t]), Marshal(targ[t])))
    /\ serviceDb' = [serviceDb EXCEPT ![ServiceKey(targ[t])] =
                       [ServiceName |-> targ[t].ServiceName,
                        HostAddr |-> targ[t].HostAddr,
                        Port |-> targ[t].Port,
                        stopChan |-> Len(loops) + 1]]
    /\ Return(t, "ok")
    /\ UNCHANGED <<watchVars, logVars, callers, idents, loopCap, top, targ, tsrv, tbase, tprev, nodes, exited>>

(***************************************************************************)
(* DeregisterService, called by the caller or by RegisterService.          *)
(***************************************************************************)
\* where a DeregisterService that returns r continues
DeregReturn(t, r) ==
    IF top[t] = "Register"
    THEN /\ tpc' = [tpc EXCEPT ![t] = "reg_marshal"]
         /\ UNCHANGED tret
    ELSE Return(t, r)

\* the caller enters DeregisterService(info)
DeregCall(t, info) ==
    /\ ~exited
    /\ tpc[t] = "idle"
    /\ tpc' = [tpc EXCEPT ![t] = "dereg_find"]
    /\ top' = [top EXCEPT ![t] = "Deregister"]
    /\ targ' = [targ EXCEPT ![t] = info]
    /\ tret' = [tret EXCEPT ![t] = "none"]
    /\ tbase' = [tbase EXCEPT ![t] = Len(loops)]
    /\ tsrv' = [tsrv EXCEPT ![t] = 0]
    /\ tprev' = [tprev EXCEPT ![t] =
                   [op |-> top[t], arg |-> targ[t], ret |-> tret[t]]]
    /\ UNCHANGED <<watchVars, logVars, callers, idents, loopCap, serviceDb, loops, nodes, exited>>

\* DeregFind that reports success for an identity it does not find
DeregFindReturnsOk(t) ==
    /\ ~exited
    /\ tpc[t] = "dereg_find"
    /\ IF serviceDb[ServiceKey(targ[t])] = NoState
       THEN /\ DeregReturn(t, "ok")
            /\ UNCHANGED tsrv
       ELSE /\ tsrv' = [tsrv EXCEPT ![t] =
                          serviceDb[ServiceKey(targ[t])].stopChan]
            /\ tpc' = [tpc EXCEPT ![t] = "dereg_stop"]
            /\ UNCHANGED tret
    /\ UNCHANGED <<watchVars, logVars, callers, idents, loopCap, top, targ,
                   tbase, tprev, serviceDb, loops, nodes, exited>>

\* srvState := ep.serviceDb[keyName]; if srvState == nil { return error }
DeregFind(t) ==
    /\ ~exited
    /\ tpc[t] = "dereg_find"
    /\ IF serviceDb[ServiceKey(targ[t])] = NoState
       THEN /\ DeregReturn(t, "NotFound")
            /\ UNCHANGED tsrv
       ELSE /\ tsrv' = [tsrv EXCEPT ![t] =
                          serviceDb[ServiceKey(targ[t])].stopChan]
            /\ tpc' = [tpc EXCEPT ![t] = "dereg_stop"]
            /\ UNCHANGED tret
    /\ UNCHANGED <<watchVars, logVars, callers, idents, loopCap, top, targ, tbase, tprev, serviceDb, loops, nodes, exited>>

\* DeregStop that does not send on stopChan
DeregStopNoSignal(t) ==
    /\ ~exited
    /\ tpc[t] = "dereg_stop"
    /\ tpc' = [tpc EXCEPT ![t] = "dereg_del"]
    /\ UNCHANGED <<watchVars, logVars, callers, idents, loopCap, top, targ, tsrv, tret, tbase, tprev, serviceDb, nodes,
                   loops, exited>>

\* srvState.stopChan <- true  (capacity 1: blocks while a value is buffered)
DeregStop(t) ==
    /\ ~exited
    /\ tpc[t] = "dereg_stop"
    /\ loops[tsrv[t]].stopChan = 0
    /\ loops' = [loops EXCEPT ![tsrv[t]].stopChan = 1]
    /\ tpc' = [tpc EXCEPT ![t] = "dereg_del"]
    /\ UNCHANGED <<watchVars, logVars, callers, idents, loopCap, top, targ, tsrv, tret, tbase, tprev, serviceDb, nodes,
                   exited>>

\* DeregDel that leaves the record in the table
DeregDelKeepsRecord(t) ==
    /\ ~exited
    /\ tpc[t] = "dereg_del"
    /\ tpc' = [tpc EXCEPT ![t] = "dereg_kapi"]
    /\ UNCHANGED <<watchVars, logVars, callers, idents, loopCap, top, targ,
                   tsrv, tret, tbase, tprev, serviceDb, loops, nodes, exited>>

\* delete(ep.serviceDb, keyName)
DeregDel(t) ==
    /\ ~exited
    /\ tpc[t] = "dereg_del"
    /\ serviceDb' = [serviceDb EXCEPT ![ServiceKey(targ[t])] = NoState]
    /\ tpc' = [tpc EXCEPT ![t] = "dereg_kapi"]
    /\ UNCHANGED <<watchVars, logVars, callers, idents, loopCap, top, targ, tsrv, tret, tbase, tprev, loops, nodes, exited>>

\* _, err := ep.kapi.Delete(ctx, keyName, nil)
DeregKapi(t) ==
    /\ ~exited
    /\ tpc[t] = "dereg_kapi"
    /\ \/ /\ KapiDelete(ServiceKey(targ[t]))
          /\ DeregReturn(t, "ok")
       \/ /\ UNCHANGED nodes
          /\ DeregReturn(t, "DeleteErr")
    /\ UNCHANGED <<watchVars, logVars, callers, idents, loopCap, top, targ, tsrv, tbase, tprev, serviceDb, loops, exited>>

(***************************************************************************)
(* refreshService.                                                         *)
(***************************************************************************)
\* LoopTimer that is also taken while a stop signal waits in stopChan
LoopTimerAnyTime(l) ==
    /\ ~exited
    /\ loops[l].pc = "select"
    /\ loops' = [loops EXCEPT ![l].pc = "set1"]
    /\ UNCHANGED <<watchVars, logVars, callers, idents, loopCap, tpc, top, targ, tsrv, tret, tbase, tprev, serviceDb,
                   nodes, exited>>

\* case <-time.After(serviceTTL/3 seconds): the timer case is taken.  Every
\* turn of the for loop makes a new 10 s timer, and a goroutine parked in
\* select is woken by the first channel that becomes ready: with a signal
\* already in stopChan the stop case is the one taken, so the timer case is
\* taken only while stopChan is empty.
LoopTimer(l) ==
    /\ ~exited
    /\ loops[l].pc = "select"
    /\ loops[l].stopChan = 0
    /\ loops' = [loops EXCEPT ![l].pc = "set1"]
    /\ UNCHANGED <<watchVars, logVars, callers, idents, loopCap, tpc, top, targ, tsrv, tret, tbase, tprev, serviceDb,
                   nodes, exited>>

\* the first kapi.Set of a cycle
LoopSet1(l) ==
    /\ ~exited
    /\ loops[l].pc = "set1"
    /\ \/ /\ KapiSet(loops[l].keyName, loops[l].keyVal)
          /\ loops' = [loops EXCEPT ![l].pc = "select"]
       \/ /\ UNCHANGED nodes
          /\ loops' = [loops EXCEPT ![l].pc = "set2"]
    /\ UNCHANGED <<watchVars, logVars, callers, idents, loopCap, tpc, top, targ, tsrv, tret, tbase, tprev, serviceDb,
                   exited>>

\* LoopSet2 that returns from refreshService when the retry fails too
LoopSet2GivesUp(l) ==
    /\ ~exited
    /\ loops[l].pc = "set2"
    /\ \/ /\ KapiSet(loops[l].keyName, loops[l].keyVal)
          /\ loops' = [loops EXCEPT ![l].pc = "select"]
       \/ /\ UNCHANGED nodes
          /\ loops' = [loops EXCEPT ![l].pc = "done"]
    /\ UNCHANGED <<watchVars, logVars, callers, idents, loopCap, tpc, top, targ, tsrv, tret, tbase, tprev, serviceDb,
                   exited>>

\* the retry: the second kapi.Set, whose failure is only logged
LoopSet2(l) ==
    /\ ~exited
    /\ loops[l].pc = "set2"
    /\ \/ KapiSet(loops[l].keyName, loops[l].keyVal)
       \/ UNCHANGED nodes
    /\ loops' = [loops EXCEPT ![l].pc = "select"]
    /\ UNCHANGED <<watchVars, logVars, callers, idents, loopCap, tpc, top, targ, tsrv, tret, tbase, tprev, serviceDb,
                   exited>>

\* case <-stopChan: return
LoopStop(l) ==
    /\ ~exited
    /\ loops[l].pc = "select"
    /\ loops[l].stopChan = 1
    /\ loops' = [loops EXCEPT ![l].pc = "done", ![l].stopChan = 0]
    /\ UNCHANGED <<watchVars, logVars, callers, idents, loopCap, tpc, top, targ, tsrv, tret, tbase, tprev, serviceDb,
                   nodes, exited>>

\* the store drops a key whose TTL ran out
TtlExpire(k) ==
    /\ nodes[k] # NoVal
    /\ nodes' = [nodes EXCEPT ![k] = NoVal]
    /\ UNCHANGED <<regVars, watchVars, logVars, exited>>

NextReg ==
    \/ \E t \in callers, i \in idents : RegCall(t, i)
    \/ \E t \in callers : RegCheck(t)
    \/ \E t \in callers : RegMarshal(t)
    \/ \E t \in callers : RegSet(t)
    \/ \E t \in callers : RegStore(t)
    \/ \E t \in callers, i \in idents : DeregCall(t, i)
    \/ \E t \in callers : DeregFind(t)
    \/ \E t \in callers : DeregStop(t)
    \/ \E t \in callers : DeregDel(t)
    \/ \E t \in callers : DeregKapi(t)
    \/ \E l \in 1..Len(loops) : LoopTimer(l)
    \/ \E l \in 1..Len(loops) : LoopSet1(l)
    \/ \E l \in 1..Len(loops) : LoopSet2(l)
    \/ \E l \in 1..Len(loops) : LoopStop(l)
    \/ \E k \in AllKeys : TtlExpire(k)

\* one caller: calls are sequential
SpecReg == Init({1}, Infos, MaxLoops) /\ StoreAfter(0) /\ [][NextReg]_vars

\* one caller registering and deregistering one identity, and goroutines
\* that are scheduled: a kapi.Set in progress returns, and a goroutine that
\* can take the stop case does
SpecRegFair ==
    /\ Init({1}, {InfoA}, MaxLoops)
    /\ StoreAfter(0)
    /\ [][NextReg]_vars
    /\ \A l \in 1..MaxLoops :
          /\ WF_vars(l \in 1..Len(loops) /\ LoopSet1(l))
          /\ WF_vars(l \in 1..Len(loops) /\ LoopSet2(l))
          /\ WF_vars(l \in 1..Len(loops) /\ LoopStop(l))

\* two callers running RegisterService/DeregisterService concurrently
SpecConc == Init({1, 2}, {InfoA}, MaxConcLoops) /\ StoreAfter(0) /\ [][NextReg]_vars

(***************************************************************************)
(* The store as a watch session sees it: every mutation gets the next      *)
(* index and is kept in the event history.  The mutations are those of     *)
(* any client of the store, the registry's own Set and Delete included.    *)
(***************************************************************************)
EtcdCommit(a, k) ==
    /\ etcdIndex < baseIndex + MaxIndex
    /\ etcdIndex' = etcdIndex + 1
    /\ UNCHANGED baseIndex
    /\ history' = Append(history, MkRsp(a, k, etcdIndex + 1))

\* a client sets key k (a registration, a renewal, or a foreign write)
EtcdSet(k, v) ==
    /\ EtcdCommit("set", k)
    /\ nodes' = [nodes EXCEPT ![k] = v]
    /\ made' = made \cup {k}
    /\ UNCHANGED <<regVars, watchVars, exited>>

\* a client deletes key k
EtcdDelete(k) ==
    /\ nodes[k] # NoVal
    /\ EtcdCommit("delete", k)
    /\ nodes' = [nodes EXCEPT ![k] = NoVal]
    /\ UNCHANGED <<regVars, watchVars, made, exited>>

\* the TTL of key k runs out
EtcdExpire(k) ==
    /\ nodes[k] # NoVal
    /\ EtcdCommit("expire", k)
    /\ nodes' = [nodes EXCEPT ![k] = NoVal]
    /\ UNCHANGED <<regVars, watchVars, made, exited>>

\* a client updates the live key k (prevExist = true)
EtcdUpdate(k, v) ==
    /\ nodes[k] # NoVal
    /\ EtcdCommit("update", k)
    /\ nodes' = [nodes EXCEPT ![k] = v]
    /\ UNCHANGED <<regVars, watchVars, made, exited>>

\* the directory exists once a key was created under it
DirExists(dir) == \E k \in made : HasPrefix(k, dir)

\* resp.Node.Nodes of a recursive, sorted Get of the directory: the values
ListDir(dir) ==
    LET keys == SelectSeq(KeyUniverse,
                          LAMBDA k : HasPrefix(k, dir) /\ nodes[k] # NoVal)
    IN  [i \in 1..Len(keys) |-> nodes[keys[i]]]

(***************************************************************************)
(* getServiceState and initServiceState.                                   *)
(***************************************************************************)
\* getServiceState(key); fail: the Get failed with another error than
\* "Key not found", or the response is not a directory
getServiceState(dir, fail) ==
    LET vals == ListDir(dir)
    IN  IF fail THEN [err |-> "get", index |-> 0, list |-> <<>>]
        ELSE IF ~DirExists(dir)
        THEN [err |-> "none", index |-> 0, list |-> <<>>]
        ELSE IF \E i \in 1..Len(vals) : ~Unmarshal(vals[i]).ok
        THEN [err |-> "unmarshal", index |-> 0, list |-> <<>>]
        ELSE [err |-> "none", index |-> etcdIndex + 1,
              list |-> [i \in 1..Len(vals) |-> Unmarshal(vals[i]).val]]

\* the caller calls WatchService(name, eventCh, stopCh): both goroutines start
WatchCall ==
    /\ ~exited
    /\ wpc = "idle"
    /\ wpc' = "get"
    /\ xpc' = "select"
    /\ UNCHANGED <<regVars, storeVars, exited, srvcList, watchIndex, waitIndex,
                   etcdRsp, wexit, watchCh, pending, eventCh, stopCh,
                   cancelled, emitted, snapIndex, snapNodes, wname, returned, exitIndex>>

\* initServiceState: mIndex, srvcList, err := ep.getServiceState(key);
\* an error makes WatchService call log.Fatalf, which ends the process
InitGet(fail) ==
    /\ ~exited
    /\ wpc = "get"
    /\ LET r == getServiceState(WatchKey(wname), fail)
       IN  IF r.err # "none"
           THEN /\ wpc' = "fatal"
                /\ exited' = TRUE
                /\ UNCHANGED <<srvcList, watchIndex, snapIndex, snapNodes>>
           ELSE /\ wpc' = "emit"
                /\ srvcList' = r.list
                /\ watchIndex' = r.index
                /\ snapIndex' = etcdIndex
                /\ snapNodes' = ListDir(WatchKey(wname))
                /\ UNCHANGED exited
    /\ UNCHANGED <<regVars, storeVars, waitIndex, etcdRsp, wexit, watchCh, xpc,
                   pending, eventCh, stopCh, cancelled, emitted, wname,
                   returned, exitIndex>>

\* eventCh <- ev, completed
Emit(ev, src, idx) ==
    /\ Len(eventCh) < EventChCap
    /\ eventCh' = Append(eventCh, ev)
    /\ emitted' = Append(emitted, [ev |-> ev, src |-> src, idx |-> idx])

\* initServiceState: one turn of "for _, srvInfo := range srvcList"
InitEmit ==
    /\ ~exited
    /\ wpc = "emit"
    /\ srvcList # <<>>
    /\ Emit(MkEvent("Add", Head(srvcList)), "snap", 0)
    /\ srvcList' = Tail(srvcList)
    /\ UNCHANGED <<regVars, storeVars, exited, wpc, watchIndex, waitIndex,
                   etcdRsp, wexit, watchCh, xpc, pending, stopCh, cancelled,
                   snapIndex, snapNodes, wname, returned, exitIndex>>

(***************************************************************************)
(* WatchService: the watch goroutine.                                      *)
(***************************************************************************)
\* kapi.Watcher(key, AfterIndex): the first index the watcher waits for.
\* AfterIndex is exclusive (the etcd client waits for AfterIndex + 1: "the
\* first event will have an index >= AfterIndex + 1"); with AfterIndex 0
\* the request carries no index.
WatcherWaitIndex(afterIndex) == IF afterIndex > 0 THEN afterIndex + 1 ELSE 0

\* OpenWatcher that does not wait for the snapshot to be injected
OpenWatcherEarly ==
    /\ ~exited
    /\ wpc = "emit"
    /\ waitIndex' = WatcherWaitIndex(watchIndex)
    /\ wpc' = "next"
    /\ UNCHANGED <<regVars, storeVars, exited, srvcList, watchIndex, etcdRsp,
                   wexit, watchCh, xpc, pending, eventCh, stopCh, cancelled,
                   emitted, snapIndex, snapNodes, wname, returned, exitIndex>>

\* initServiceState returned; watcher := ep.kapi.Watcher(keyName,
\* AfterIndex: watchIndex, Recursive: true)
OpenWatcher ==
    /\ ~exited
    /\ wpc = "emit"
    /\ srvcList = <<>>
    /\ waitIndex' = WatcherWaitIndex(watchIndex)
    /\ wpc' = "next"
    /\ UNCHANGED <<regVars, storeVars, exited, srvcList, watchIndex, etcdRsp,
                   wexit, watchCh, xpc, pending, eventCh, stopCh, cancelled,
                   emitted, snapIndex, snapNodes, wname, returned, exitIndex>>

\* watcher.Next: a request without an index reaches the store, which
\* answers it with the next mutation committed from then on
NextArm ==
    /\ ~exited
    /\ wpc = "next"
    /\ waitIndex = 0
    /\ waitIndex' = etcdIndex + 1
    /\ UNCHANGED <<regVars, storeVars, exited, wpc, srvcList, watchIndex,
                   etcdRsp, wexit, watchCh, xpc, pending, eventCh, stopCh,
                   cancelled, emitted, snapIndex, snapNodes, wname, returned, exitIndex>>

\* a recursive watch of the directory of a service sees the keys under it
\* and the directory's own key (the name without the trailing "/")
UnderDir(k, name) == HasPrefix(k, WatchKey(name)) \/ k = ServicePrefix \o name

\* the indices watcher.Next can answer with
Ready == {i \in waitIndex..etcdIndex : UnderDir(history[i].Key, wname)}

\* watcher.Next returns the first mutation at or after the awaited index
NextEvent ==
    /\ ~exited
    /\ wpc = "next"
    /\ waitIndex > 0
    /\ Ready # {}
    /\ LET i == CHOOSE i \in Ready : \A j \in Ready : i <= j
       IN  /\ etcdRsp' = history[i]
           /\ waitIndex' = i + 1
           /\ returned' = Append(returned, i)
    /\ wpc' = "send"
    /\ UNCHANGED <<regVars, storeVars, exited, srvcList, watchIndex, wexit,
                   watchCh, xpc, pending, eventCh, stopCh, cancelled, emitted,
                   snapIndex, snapNodes, wname, exitIndex>>

\* the watch goroutine returns because watcher.Next returned an error
WatchReturn(why) ==
    /\ wpc' = "done"
    /\ wexit' = why
    /\ exitIndex' = etcdIndex
    /\ UNCHANGED <<regVars, storeVars, exited, srvcList, watchIndex, waitIndex,
                   etcdRsp, watchCh, xpc, pending, eventCh, stopCh, cancelled,
                   emitted, snapIndex, snapNodes, wname, returned>>

\* NextUnavailable that stays in the for loop and calls watcher.Next again
NextUnavailableRetries ==
    /\ ~exited
    /\ wpc = "next"
    /\ wexit' = "unavailable"
    /\ exitIndex' = etcdIndex
    /\ UNCHANGED <<regVars, storeVars, exited, wpc, srvcList, watchIndex,
                   waitIndex, etcdRsp, watchCh, xpc, pending, eventCh, stopCh,
                   cancelled, emitted, snapIndex, snapNodes, wname, returned>>

\* watcher.Next fails with client.ErrClusterUnavailable
NextUnavailable == ~exited /\ wpc = "next" /\ WatchReturn("unavailable")

\* watcher.Next fails because watchCtx is cancelled
NextCancelled ==
    ~exited /\ wpc = "next" /\ cancelled /\ WatchReturn("cancelled")

\* watcher.Next fails with another error
NextError == ~exited /\ wpc = "next" /\ WatchReturn("error")

\* WatchSend that does not wait for room in watchCh: the response is dropped
WatchSendOrDrop ==
    /\ ~exited
    /\ wpc = "send"
    /\ watchCh' = IF Len(watchCh) < 1 THEN Append(watchCh, etcdRsp) ELSE watchCh
    /\ etcdRsp' = NoRsp
    /\ wpc' = "next"
    /\ UNCHANGED <<regVars, storeVars, exited, srvcList, watchIndex, waitIndex,
                   wexit, xpc, pending, eventCh, stopCh, cancelled, emitted,
                   snapIndex, snapNodes, wname, returned, exitIndex>>

\* watchCh <- etcdRsp
WatchSend ==
    /\ ~exited
    /\ wpc = "send"
    /\ Len(watchCh) < 1
    /\ watchCh' = Append(watchCh, etcdRsp)
    /\ etcdRsp' = NoRsp
    /\ wpc' = "next"
    /\ UNCHANGED <<regVars, storeVars, exited, srvcList, watchIndex, waitIndex,
                   wexit, xpc, pending, eventCh, stopCh, cancelled, emitted,
                   snapIndex, snapNodes, wname, returned, exitIndex>>

(***************************************************************************)
(* WatchService: the translating goroutine.                                *)
(***************************************************************************)
\* Translate without the "expire" case
TranslateNoExpire(rsp) ==
    LET srvKey == TrimPrefix(rsp.Key, ServicePrefix)
        parts  == Split(srvKey, "/")
        hp     == Split(parts[2], ":")
        info   == MkInfo(parts[1], hp[1], Atoi(hp[2]))
    IN  IF Len(parts) < 2 THEN <<>>
        ELSE IF Len(hp) # 2 THEN <<>>
        ELSE IF rsp.Action = "set" THEN <<MkEvent("Add", info)>>
        ELSE IF rsp.Action = "delete" THEN <<MkEvent("Del", info)>>
        ELSE <<>>

\* the events a response is translated to: none or one
Translate(rsp) ==
    LET srvKey == TrimPrefix(rsp.Key, ServicePrefix)
        parts  == Split(srvKey, "/")
        hp     == Split(parts[2], ":")
        info   == MkInfo(parts[1], hp[1], Atoi(hp[2]))
    IN  IF Len(parts) < 2 THEN <<>>
        ELSE IF Len(hp) # 2 THEN <<>>
        ELSE IF rsp.Action = "set" THEN <<MkEvent("Add", info)>>
        ELSE IF rsp.Action \in {"delete", "expire"}
        THEN <<MkEvent("Del", info)>>
        ELSE <<>>

\* case watchResp := <-watchCh, up to the send on eventCh
XlateRecv ==
    /\ ~exited
    /\ xpc = "select"
    /\ watchCh # <<>>
    /\ watchCh' = Tail(watchCh)
    /\ LET evs == Translate(Head(watchCh))
       IN  IF evs = <<>>
           THEN UNCHANGED <<xpc, pending>>
           ELSE /\ xpc' = "fwd"
                /\ pending' = [ev |-> evs[1], idx |-> Head(watchCh).Index]
    /\ UNCHANGED <<regVars, storeVars, exited, wpc, srvcList, watchIndex,
                   waitIndex, etcdRsp, wexit, eventCh, stopCh, cancelled,
                   emitted, snapIndex, snapNodes, wname, returned, exitIndex>>

\* eventCh <- WatchServiceEvent{...}
XlateSend ==
    /\ ~exited
    /\ xpc = "fwd"
    /\ Emit(pending.ev, "watch", pending.idx)
    /\ pending' = NoEvent
    /\ xpc' = "select"
    /\ UNCHANGED <<regVars, storeVars, exited, wpc, srvcList, watchIndex,
                   waitIndex, etcdRsp, wexit, watchCh, stopCh, cancelled,
                   snapIndex, snapNodes, wname, returned, exitIndex>>

\* case stopReq := <-stopCh: if stopReq { watchCancel(); return }
XlateStop ==
    /\ ~exited
    /\ xpc = "select"
    /\ stopCh # <<>>
    /\ stopCh' = Tail(stopCh)
    /\ IF Head(stopCh)
       THEN cancelled' = TRUE /\ xpc' = "done"
       ELSE UNCHANGED <<cancelled, xpc>>
    /\ UNCHANGED <<regVars, storeVars, exited, wpc, srvcList, watchIndex,
                   waitIndex, etcdRsp, wexit, watchCh, pending, eventCh,
                   emitted, snapIndex, snapNodes, wname, returned, exitIndex>>

(***************************************************************************)
(* The caller of WatchService.                                             *)
(***************************************************************************)
\* stopCh <- b
CallerStop(b) ==
    /\ ~exited
    /\ wpc # "idle"
    /\ Len(stopCh) < 1
    /\ stopCh' = Append(stopCh, b)
    /\ UNCHANGED <<regVars, storeVars, exited, wpc, srvcList, watchIndex,
                   waitIndex, etcdRsp, wexit, watchCh, xpc, pending, eventCh,
                   cancelled, emitted, snapIndex, snapNodes, wname, returned, exitIndex>>

\* <-eventCh
CallerReceive ==
    /\ ~exited
    /\ eventCh # <<>>
    /\ eventCh' = Tail(eventCh)
    /\ UNCHANGED <<regVars, storeVars, exited, wpc, srvcList, watchIndex,
                   waitIndex, etcdRsp, wexit, watchCh, xpc, pending, stopCh,
                   cancelled, emitted, snapIndex, snapNodes, wname, returned, exitIndex>>

NextWatch ==
    \/ \E k \in AllKeys : EtcdSet(k, Marshal(InfoOfKey(k)))
    \/ \E k \in AllKeys : EtcdSet(k, Garbage)
    \/ \E k \in AllKeys : EtcdDelete(k)
    \/ \E k \in AllKeys : EtcdExpire(k)
    \/ WatchCall
    \/ \E fail \in BOOLEAN : InitGet(fail)
    \/ InitEmit
    \/ OpenWatcher
    \/ NextArm
    \/ NextEvent
    \/ NextUnavailable
    \/ NextCancelled
    \/ NextError
    \/ WatchSend
    \/ XlateRecv
    \/ XlateSend
    \/ XlateStop
    \/ \E b \in BOOLEAN : CallerStop(b)
    \/ CallerReceive

\* one WatchService session over a store that other clients mutate
SpecWatch ==
    /\ Init({}, {}, 0)
    /\ \/ \E n \in 0..Len(KeyUniverse) : StoreAfter(n)
       \/ StoreForeign
    /\ [][NextWatch]_vars

(***************************************************************************)
(* The translating goroutine over the keys and actions any client of the   *)
(* store can produce under the directory of a service: the keys that       *)
(* RegisterService builds, and keys of other shapes.                       *)
(***************************************************************************)
\* service names, host addresses and ports of the registrations
RegNames == {<<"w">>, <<>>, <<"a", ":">>}

RegHosts == {<<"h">>, <<>>}

RegPorts == {0, 80}

RegInfos(name) == {MkInfo(name, h, p) : h \in RegHosts, p \in RegPorts}

\* keys under the directory of the service that RegisterService never builds:
\* the directory itself, no ":", two ":", a port that is no number, a path
\* segment too many after and before the host
OddKeys(name) ==
    {ServicePrefix \o name,
     WatchKey(name) \o <<"h">>,
     WatchKey(name) \o <<"h", ":", "7", ":", "7">>,
     WatchKey(name) \o <<"h", ":", "x">>,
     WatchKey(name) \o <<"h", ":", "7", "/", "x">>,
     WatchKey(name) \o <<"x", "/", "h", ":", "7">>}

RawKeys(name) == OddKeys(name) \cup {ServiceKey(i) : i \in RegInfos(name)}

\* a value written by a client; the watch never reads it
RawVal == <<"value">>

\* the empty store with room for the keys of the service
StoreRaw(name) ==
    /\ nodes = [k \in RawKeys(name) |-> NoVal]
    /\ baseIndex = 0
    /\ etcdIndex = 0
    /\ history = <<>>
    /\ made = {}

NextXlate ==
    \/ \E k \in RawKeys(wname) : EtcdSet(k, RawVal)
    \/ \E k \in RawKeys(wname) : EtcdUpdate(k, RawVal)
    \/ \E k \in RawKeys(wname) : EtcdDelete(k)
    \/ \E k \in RawKeys(wname) : EtcdExpire(k)
    \/ NextEvent
    \/ WatchSend
    \/ XlateRecv
    \/ XlateSend
    \/ CallerReceive

\* a streaming session of one service whose keys clients set, update,
\* delete and let expire
SpecXlate ==
    /\ InitPlugin({}, {}, 0)
    /\ \E name \in RegNames : StoreRaw(name) /\ SessionStreaming(name, 0)
    /\ [][NextXlate]_vars

(***************************************************************************)
(* Properties of RegisterService, DeregisterService and refreshService.    *)
(***************************************************************************)
Key(t) == ServiceKey(targ[t])

LoopIds == 1..Len(loops)

\* the goroutine has not returned
Running(l) == loops[l].pc \in {"select", "set1", "set2"}

\* the goroutine issues a kapi.Set in this step
WriteBy(l) == loops[l].pc \in {"set1", "set2"} /\ loops'[l].pc # loops[l].pc

\* the caller's last call has returned r
Returned(t, op, r) == tpc[t] = "idle" /\ top[t] = op /\ tret[t] = r

\* RegisterService of caller t has sent the stop signal to goroutine l, the
\* renewal loop of an earlier registration of the same identity
ReRegStopped(t, l) ==
    /\ top[t] = "Register"
    /\ tsrv[t] = l
    /\ tpc[t] \notin {"reg_check", "dereg_find", "dereg_stop"}
    /\ loops[l].keyName = Key(t)

\* C3: after a second RegisterService of an identity has signalled the
\* renewal loop of the first registration to stop, that loop performs no
\* further store write.
C3_OldLoopSilentAfterStop ==
    [][\A t \in callers : \A l \in LoopIds :
          ReRegStopped(t, l) => ~WriteBy(l)]_vars

\* C4: once DeregisterService has returned successfully the key is absent
\* from the store and stays absent until the caller's next call (no renewal
\* write brings it back).
C4_KeyAbsentAfterDeregister ==
    \A t \in callers :
        Returned(t, "Deregister", "ok") => nodes[Key(t)] = NoVal

\* a goroutine that is running, has not been sent a stop signal, and whose
\* stop channel no record of the table holds
Orphan(l) ==
    /\ Running(l)
    /\ loops[l].stopChan = 0
    /\ \A k \in AllKeys : serviceDb[k].stopChan # l

\* C5: with concurrent callers there is at most one live registration
\* (running, unstopped renewal loop) per identity, and no renewal loop keeps
\* running whose stop handle the table no longer holds.
C5_TableMutualExclusion ==
    /\ \A l \in LoopIds : ~Orphan(l)
    /\ \A l, m \in LoopIds :
          (/\ Running(l) /\ loops[l].stopChan = 0
           /\ Running(m) /\ loops[m].stopChan = 0
           /\ loops[l].keyName = loops[m].keyName) => l = m

\* C7: DeregisterService of an identity with no record returns NotFound and
\* changes neither the table, nor any stop channel, nor the store.
C7_DeregisterNotFound ==
    [][\A t \in callers :
          (/\ top[t] = "Deregister"
           /\ tpc[t] = "dereg_find"
           /\ serviceDb[Key(t)] = NoState
           /\ tpc'[t] # tpc[t])
          => (/\ tpc'[t] = "idle"
              /\ tret'[t] = "NotFound"
              /\ UNCHANGED <<serviceDb, loops, nodes>>)]_vars

C7_Witness == \E t \in callers : Returned(t, "Deregister", "NotFound")

\* C8: a RegisterService that failed at serialization or at the store write
\* leaves no record for the identity and started no renewal loop, also when
\* the identity was registered before the call.
C8_FailedRegisterRegistersNothing ==
    \A t \in callers :
        (Returned(t, "Register", "MarshalErr") \/ Returned(t, "Register", "SetErr"))
        => (serviceDb[Key(t)] = NoState /\ Len(loops) = tbase[t])

\* a failed RegisterService of an identity that was registered before it
C8_Witness ==
    \E t \in callers : Returned(t, "Register", "SetErr") /\ tsrv[t] # 0

\* the stop signal has been sent to goroutine l
Signalled(l) == loops[l].stopChan = 1 \/ loops[l].pc = "done"

\* C9: when the store delete of DeregisterService fails the error is
\* returned, the record is already removed and the renewal loop already
\* signalled; the following DeregisterService of that identity returns
\* NotFound.
C9_DeleteFailureKeepsCleanup ==
    /\ [](\A t \in callers :
             Returned(t, "Deregister", "DeleteErr")
             => (serviceDb[Key(t)] = NoState /\ Signalled(tsrv[t])))
    /\ [][\A t \in callers :
             (/\ top[t] = "Deregister"
              /\ tprev[t] = [op |-> "Deregister", arg |-> targ[t],
                             ret |-> "DeleteErr"]
              /\ tpc[t] = "dereg_find"
              /\ tpc'[t] # tpc[t])
             => (tpc'[t] = "idle" /\ tret'[t] = "NotFound")]_vars

\* the second DeregisterService after a failed store delete has returned
C9_Witness ==
    \E t \in callers :
        /\ Returned(t, "Deregister", "NotFound")
        /\ tprev[t] = [op |-> "Deregister", arg |-> targ[t], ret |-> "DeleteErr"]

\* goroutine l moves on in this step
Steps(l) == loops'[l].pc # loops[l].pc

\* the step writes the key of goroutine l with its value
Wrote(l) == nodes' = [nodes EXCEPT ![loops[l].keyName] = loops[l].keyVal]

\* C17: in a cycle refreshService writes the key once and, exactly when that
\* write failed, once more; whether the retry fails or not the loop goes
\* back to wait for the next cycle without touching the table or any
\* caller, and it returns only by taking the stop signal.
C17_RenewalRetry ==
    [][\A l \in LoopIds :
          /\ (loops[l].pc = "select" /\ Steps(l))
             => /\ loops'[l].pc \in {"set1", "done"}
                /\ UNCHANGED nodes
          /\ (loops[l].pc = "set1" /\ Steps(l))
             => \/ loops'[l].pc = "select" /\ Wrote(l)
                \/ loops'[l].pc = "set2" /\ UNCHANGED nodes
          /\ (loops[l].pc = "set2" /\ Steps(l))
             => /\ loops'[l].pc = "select"
                /\ Wrote(l) \/ UNCHANGED nodes
                /\ UNCHANGED <<serviceDb, tpc, tret>>
          /\ (loops'[l].pc = "done" /\ Steps(l))
             => /\ loops[l].pc = "select"
                /\ loops[l].stopChan = 1
                /\ loops'[l].stopChan = 0]_vars

\* the first write of a cycle failed: the goroutine is about to retry, its
\* record in the table
C17_Witness ==
    \E l \in LoopIds :
        /\ loops[l].pc = "set2"
        /\ serviceDb[loops[l].keyName].stopChan = l

\* C18: a refreshService goroutine that was sent the stop signal returns;
\* after the signal it starts no renewal cycle (the one in progress, if any,
\* is the last); and with one caller the send in DeregisterService finds
\* stopChan empty, so it does not block.
C18_RenewalStop ==
    /\ \A l \in 1..MaxLoops :
          (l \in LoopIds /\ loops[l].stopChan = 1)
              ~> (l \in LoopIds /\ loops[l].pc = "done")
    /\ [][\A l \in LoopIds :
             loops[l].stopChan = 1
             => ~(loops[l].pc = "select" /\ loops'[l].pc = "set1")]_vars
    /\ [](\A t \in callers :
             tpc[t] = "dereg_stop" => loops[tsrv[t]].stopChan = 0)

\* a goroutine has returned on the stop signal while a later registration
\* of the same identity is renewed
C18_Witness ==
    \E l, m \in LoopIds :
        /\ loops[l].pc = "done"
        /\ Running(m)
        /\ loops[m].keyName = loops[l].keyName

\* C19: between the calls of one caller the identities with a record in
\* ep.serviceDb are exactly those with a running refreshService goroutine
\* that was not sent a stop signal; there is one such goroutine per identity
\* and the record holds the stopChan that goroutine listens on.
C19_TableMatchesLoops ==
    (\A t \in callers : tpc[t] = "idle")
    => /\ \A k \in AllKeys :
             serviceDb[k] # NoState
             => /\ serviceDb[k].stopChan \in LoopIds
                /\ Running(serviceDb[k].stopChan)
                /\ loops[serviceDb[k].stopChan].stopChan = 0
                /\ loops[serviceDb[k].stopChan].keyName = k
       /\ \A l \in LoopIds :
             (Running(l) /\ loops[l].stopChan = 0)
             => serviceDb[loops[l].keyName].stopChan = l

\* an identity was registered, deregistered and registered again: its
\* record holds the second goroutine, the first was signalled
C19_Witness ==
    /\ \A t \in callers : tpc[t] = "idle"
    /\ \E k \in AllKeys :
          /\ serviceDb[k].stopChan = 2
          /\ loops[1].keyName = k
          /\ Signalled(1)

(***************************************************************************)
(* Properties of WatchService.                                             *)
(***************************************************************************)
EmittedIds == 1..Len(emitted)

\* the mutation with index i has been put on eventCh by the watch
Delivered(i) ==
    \E m \in EmittedIds : emitted[m].src = "watch" /\ emitted[m].idx = i

\* C1: no mutation committed after the snapshot read is left out: when the
\* watch has delivered the mutation with index j, every mutation with an
\* index between the snapshot's and j that translates to an event has been
\* delivered too (the watcher only moves forward, so one left out is lost).
C1_NoGapAtHandoff ==
    \A n \in EmittedIds :
        emitted[n].src = "watch"
        => \A i \in (snapIndex + 1)..(emitted[n].idx - 1) :
               Translate(history[i]) # <<>> => Delivered(i)

\* the Added event of the j-th instance of the snapshot
SnapEvent(j) ==
    [ev |-> MkEvent("Add", Unmarshal(snapNodes[j]).val), src |-> "snap",
     idx |-> 0]

\* C2: the N instances under the prefix at the snapshot yield exactly N
\* Added events, one per instance in the order read, and they precede every
\* event of the watch stream; they are all out when the watch is opened.
C2_SnapshotCompleteness ==
    /\ \A n \in EmittedIds :
          IF n <= Len(snapNodes)
          THEN emitted[n] = SnapEvent(n)
          ELSE emitted[n].src = "watch"
    /\ wpc \in {"next", "send", "done"} => Len(emitted) >= Len(snapNodes)

\* two instances in the snapshot, and an event of the watch after them
C2_Witness ==
    /\ Len(snapNodes) = 2
    /\ \E n \in EmittedIds : emitted[n].src = "watch"

\* C6: once the stop request has been accepted no event is put on the
\* output channel.
C6_NoEventAfterStop == [][cancelled => emitted' = emitted]_vars

\* C10: a session whose snapshot load failed has emitted no Added event and
\* exactly one Error event, and has opened no watch.
C10_SnapshotFailureEmitsError ==
    wpc = "fatal"
    => /\ Cardinality({n \in EmittedIds : emitted[n].ev.EventType = "Error"}) = 1
       /\ \A n \in EmittedIds : emitted[n].ev.EventType # "Add"
       /\ waitIndex = 0

\* C11: when watcher.Next reports that the cluster is unavailable the watch
\* goroutine returns, the session has put no Error event on the output
\* channel, and no mutation committed after that is ever emitted.
C11_UnavailableEndsStream ==
    wexit = "unavailable"
    => /\ wpc = "done"
       /\ \A n \in EmittedIds : emitted[n].ev.EventType # "Error"
       /\ \A n \in EmittedIds :
             emitted[n].src = "watch" => emitted[n].idx <= exitIndex

\* the watch goroutine returned on cluster-unavailable after an event of the
\* watch was emitted, and the store committed a mutation since
C11_Witness ==
    /\ wexit = "unavailable"
    /\ etcdIndex > exitIndex
    /\ \E n \in EmittedIds : emitted[n].src = "watch"

\* text that strconv.Atoi parses without an error
IsNumber(s) ==
    LET body == IF Len(s) > 0 /\ s[1] \in {"+", "-"}
                THEN SubSeq(s, 2, Len(s)) ELSE s
    IN  Len(body) > 0 /\ \A i \in 1..Len(body) : IsDigit(body[i])

\* the key is <prefix><serviceName>/<hostAddr>:<port>
WellShaped(k) ==
    LET parts == Split(TrimPrefix(k, ServicePrefix), "/")
    IN  /\ HasPrefix(k, ServicePrefix)
        /\ Len(parts) = 2
        /\ Len(Split(parts[2], ":")) = 2
        /\ IsNumber(Split(parts[2], ":")[2])

\* C12: a raw event whose key has not the shape
\* <prefix><serviceName>/<hostAddr>:<port>, with a number as port, produces
\* no event on the output channel.
C12_MalformedKeyDropped ==
    \A n \in EmittedIds :
        emitted[n].src = "watch" => WellShaped(history[emitted[n].idx].Key)

\* the indices of the events of the watch on the output channel, in order
WatchIdx ==
    LET w == SelectSeq(emitted, LAMBDA e : e.src = "watch")
    IN  [n \in 1..Len(w) |-> w[n].idx]

\* the responses watcher.Next returned that the translating goroutine has
\* not received yet: in watchCh, or held by the watch goroutine
InFlight ==
    [n \in 1..Len(watchCh) |-> watchCh[n].Index]
        \o (IF wpc = "send" THEN <<etcdRsp.Index>> ELSE <<>>)

\* the event the translating goroutine holds for the output channel
Held == IF xpc = "fwd" THEN <<pending.idx>> ELSE <<>>

\* C13: while the session is not cancelled the events of the watch are on
\* the output channel in the order in which watcher.Next returned their raw
\* events, and no raw event that translates to an event is left out: what
\* was returned is what is out, then the one held, then those in flight.
C13_OrderPreserved ==
    ~cancelled
    => LET done == Len(returned) - Len(InFlight)
       IN  /\ done >= 0
           /\ SubSeq(returned, done + 1, Len(returned)) = InFlight
           /\ SelectSeq(SubSeq(returned, 1, done),
                        LAMBDA i : Translate(history[i]) # <<>>)
                 = WatchIdx \o Held
           /\ \A n \in EmittedIds :
                 emitted[n].src = "watch"
                 => <<emitted[n].ev>> = Translate(history[emitted[n].idx])

\* two events of the watch are out, the session not cancelled
C13_Witness ==
    /\ ~cancelled
    /\ Len(WatchIdx) = 2

\* the session is streaming: its watcher is open and it is not cancelled
Streaming == ~exited /\ ~cancelled /\ wpc \in {"next", "send"}

\* this step is the store expiring a key of the watched service
ExpiryStep ==
    /\ etcdIndex' = etcdIndex + 1
    /\ history'[etcdIndex'].Action = "expire"
    /\ UnderDir(history'[etcdIndex'].Key, wname)

\* C14: when the store expires the key of a registration while a session
\* streams on its service, the session observes the Removed event: its
\* watcher waits at an index not after the expiry's, so watcher.Next
\* returns the expiry and does not pass it over.
C14_ExpiryObserved ==
    [][(Streaming /\ ExpiryStep)
          => (waitIndex >= 1 /\ waitIndex <= etcdIndex')]_vars

\* C15: while the directory of the service does not exist the recursive
\* read returns no error and an empty list, and a snapshot loaded from it
\* is empty and carries the store's index at the read as resume index (the
\* index itself, or the one after it as for a directory that exists).
C15_NotFoundIsEmpty ==
    ~DirExists(WatchKey(wname))
    => /\ getServiceState(WatchKey(wname), FALSE).err = "none"
       /\ getServiceState(WatchKey(wname), FALSE).list = <<>>
       /\ snapIndex >= 0
          => /\ snapNodes = <<>>
             /\ watchIndex \in {snapIndex, snapIndex + 1}

\* the translating goroutine is through with the raw event of index i
Processed(i) ==
    /\ \E n \in 1..(Len(returned) - Len(InFlight)) : returned[n] = i
    /\ Held # <<i>>

\* the events on the output channel that stem from the raw event of index i
EventsOf(i) ==
    LET w == SelectSeq(emitted, LAMBDA e : e.src = "watch" /\ e.idx = i)
    IN  [n \in 1..Len(w) |-> w[n].ev]

\* the identity whose key k is
KeyInfo(k) == CHOOSE info \in RegInfos(wname) : ServiceKey(info) = k

\* what the raw event is to become
Expected(rsp) ==
    IF rsp.Action = "set" THEN <<MkEvent("Add", KeyInfo(rsp.Key))>>
    ELSE IF rsp.Action \in {"delete", "expire"}
    THEN <<MkEvent("Del", KeyInfo(rsp.Key))>>
    ELSE <<>>

\* C16: a raw event with a well-formed key that the translating goroutine
\* is through with has put exactly one Added event on the output channel
\* when its action is set (also when the key was live already), exactly one
\* Removed event when it is delete or expire, and none for any other
\* action; the event carries the identity of the key.  A raw event not yet
\* processed has put nothing on the channel.
C16_EventTranslation ==
    \A i \in 1..etcdIndex :
        IF Processed(i)
        THEN WellShaped(history[i].Key) => EventsOf(i) = Expected(history[i])
        ELSE EventsOf(i) = <<>>

\* a key was set twice and both raw events are processed
C16_Witness ==
    /\ etcdIndex >= 2
    /\ history[1].Action = "set" /\ history[2].Action = "set"
    /\ history[1].Key = history[2].Key
    /\ WellShaped(history[1].Key)
    /\ Processed(1) /\ Processed(2)

\* C20: an event of the watch whose raw event has the key RegisterService
\* builds for an identity (name without "/", host without "/" and ":", port
\* not negative) carries that identity.
C20_KeyRoundTrip ==
    \A n \in EmittedIds :
        emitted[n].src = "watch"
        => \A info \in RegInfos(wname) :
               history[emitted[n].idx].Key = ServiceKey(info)
               => emitted[n].ev.ServiceInfo = info

\* an event is out for the key of a registration with a two-digit port
C20_Witness ==
    \E n \in EmittedIds : \E h \in RegHosts :
        /\ emitted[n].src = "watch"
        /\ history[emitted[n].idx].Key = ServiceKey(MkInfo(wname, h, 80))

====
